---- MODULE Spec2Model ----
(***************************************************************************)
(* Model of src/main.py: the grade-token functions (has_submitted,         *)
(* get_performance, is_valid_score, submitted, performance_above_50), the  *)
(* bucket writer write_analysis_to_csv and the main block that filters the *)
(* grade table and writes the report files.                                *)
(*                                                                         *)
(* A Python str is a sequence of one-character strings.  A Python float is *)
(* an extended rational [n, d]: d > 0 is the finite value n/d in lowest    *)
(* terms, d = 0 with n = 1 / -1 is +inf / -inf, d = 0 with n = 0 is nan.   *)
(* Arithmetic is exact; binary rounding of the quotient is not modelled.   *)
(***************************************************************************)
EXTENDS Integers, Sequences, FiniteSets, TLC

VARIABLES pc, grade, perf, valid, subm, df, frames, analysis_results, files, attempted, failed

vars == <<pc, grade, perf, valid, subm, df, frames, analysis_results, files, attempted, failed>>

(* ------------------------------ bounds --------------------------------- *)

\* longest generated grade token
MaxLen == 6
\* most rows in the grade table
MaxRows == 2
\* most names, over all buckets, handed to write_analysis_to_csv directly
MaxTotal == 3

(* --------------------------- Python values ------------------------------ *)

\* a str object holding the characters s
Str(s) == [type |-> "str", val |-> s]
\* an object that is not a str: the int 60 that read_csv infers for a cell of
\* an all-numeric column; val is the text to_csv writes for it
NotStr == [type |-> "int", val |-> <<"6", "0">>]

isinstance_str(v) == v.type = "str"

Whitespace == {" "}
Digits == {"0", "1", "2", "3", "4", "5", "6", "7", "8", "9"}

DigitVal(c) ==
    CASE c = "0" -> 0 [] c = "1" -> 1 [] c = "2" -> 2 [] c = "3" -> 3 [] c = "4" -> 4
      [] c = "5" -> 5 [] c = "6" -> 6 [] c = "7" -> 7 [] c = "8" -> 8 [] c = "9" -> 9

\* str.lower() on one character (the upper-case letters of the token universe)
lower_char(c) ==
    CASE c = "N" -> "n" [] c = "O" -> "o" [] c = "T" -> "t" [] c = "S" -> "s"
      [] c = "U" -> "u" [] c = "B" -> "b" [] c = "M" -> "m" [] c = "I" -> "i"
      [] c = "E" -> "e" [] c = "D" -> "d" [] c = "A" -> "a" [] c = "F" -> "f"
      [] c = "X" -> "x" [] OTHER -> c

lower(s) == [i \in 1..Len(s) |-> lower_char(s[i])]

RECURSIVE lstrip(_)
lstrip(s) == IF s # <<>> /\ Head(s) \in Whitespace THEN lstrip(Tail(s)) ELSE s

RECURSIVE rstrip(_)
rstrip(s) ==
    IF s # <<>> /\ s[Len(s)] \in Whitespace THEN rstrip(SubSeq(s, 1, Len(s) - 1)) ELSE s

\* str.strip()
strip(s) == rstrip(lstrip(s))

\* str.startswith(p)
startswith(s, p) == Len(s) >= Len(p) /\ SubSeq(s, 1, Len(p)) = p

\* p in s
contains(s, p) ==
    /\ Len(s) >= Len(p)
    /\ \E i \in 1..(Len(s) - Len(p) + 1) : SubSeq(s, i, i + Len(p) - 1) = p

\* str.find(c) + 1 for a character c that occurs in s
find(s, c) == CHOOSE j \in 1..Len(s) : s[j] = c /\ \A k \in 1..(j - 1) : s[k] # c

\* str.split(c) for a one-character separator: always at least one piece
RECURSIVE split(_, _)
split(s, c) ==
    IF \A i \in 1..Len(s) : s[i] # c
    THEN <<s>>
    ELSE <<SubSeq(s, 1, find(s, c) - 1)>> \o split(SubSeq(s, find(s, c) + 1, Len(s)), c)

(* ------------------------------ floats ---------------------------------- *)

Abs(x) == IF x < 0 THEN -x ELSE x
Sgn(x) == IF x < 0 THEN -1 ELSE IF x > 0 THEN 1 ELSE 0

RECURSIVE GCD(_, _)
GCD(a, b) == IF b = 0 THEN a ELSE GCD(b, a % b)

RECURSIVE Pow10(_)
Pow10(k) == IF k = 0 THEN 1 ELSE 10 * Pow10(k - 1)

\* the finite float n/d (d > 0), in lowest terms
lowest(n, d, g) == [n |-> n \div g, d |-> d \div g]
Fin(n, d) == lowest(n, d, GCD(Abs(n), d))
Inf(sign) == [n |-> sign, d |-> 0]
NaN == [n |-> 0, d |-> 0]

IsNaN(a) == a.d = 0 /\ a.n = 0
IsInf(a) == a.d = 0 /\ a.n # 0

\* a == c for an integer literal c
FloatEq(a, c) == a.d = 1 /\ a.n = c
\* a > c for an integer literal c (False for nan)
FloatGt(a, c) == ~IsNaN(a) /\ a.n > c * a.d

\* a / b for b that does not compare equal to 0
FloatDiv(a, b) ==
    IF IsNaN(a) \/ IsNaN(b) THEN NaN
    ELSE IF IsInf(b) THEN (IF IsInf(a) THEN NaN ELSE Fin(0, 1))
    ELSE IF IsInf(a) THEN Inf(a.n * Sgn(b.n))
    ELSE Fin(a.n * b.d * Sgn(b.n), a.d * Abs(b.n))

\* a * c for a positive integer literal c
FloatMul(a, c) == IF a.d = 0 THEN a ELSE Fin(a.n * c, a.d)

RECURSIVE IntOf(_)
IntOf(s) == IF s = <<>> THEN 0 ELSE IntOf(SubSeq(s, 1, Len(s) - 1)) * 10 + DigitVal(s[Len(s)])

IsDigits(s) == \A i \in 1..Len(s) : s[i] \in Digits

ValueError == [ok |-> FALSE, v |-> NaN]
Parsed(x) == [ok |-> TRUE, v |-> x]

\* digits [. [digits]] | . digits, for the pieces p of s around "."
decimal_of(s, p) ==
    IF Len(p) = 1
    THEN (IF s # <<>> /\ IsDigits(s) THEN Parsed(Fin(IntOf(s), 1)) ELSE ValueError)
    ELSE IF Len(p) = 2 /\ IsDigits(p[1]) /\ IsDigits(p[2]) /\ Len(p[1]) + Len(p[2]) > 0
    THEN Parsed(Fin(IntOf(p[1] \o p[2]), Pow10(Len(p[2]))))
    ELSE ValueError

ParseDecimal(s) == decimal_of(s, split(s, "."))

\* the mantissa m scaled by the exponent text e ([sign] digits)
scaled(m, neg, e) ==
    IF ~m.ok \/ e = <<>> \/ ~IsDigits(e) THEN ValueError
    ELSE IF neg THEN Parsed(Fin(m.v.n, m.v.d * Pow10(IntOf(e))))
    ELSE Parsed(Fin(m.v.n * Pow10(IntOf(e)), m.v.d))

\* decimal [e [sign] digits], for the pieces p of s around "e"
unsigned_of(s, p) ==
    IF Len(p) = 1 THEN ParseDecimal(s)
    ELSE IF Len(p) > 2 THEN ValueError
    ELSE scaled(ParseDecimal(p[1]),
                p[2] # <<>> /\ Head(p[2]) = "-",
                IF p[2] # <<>> /\ Head(p[2]) \in {"+", "-"} THEN Tail(p[2]) ELSE p[2])

ParseUnsigned(s) == unsigned_of(s, split(s, "e"))

with_sign(u, sign) == IF u.ok THEN Parsed([n |-> sign * u.v.n, d |-> u.v.d]) ELSE ValueError

\* inf | infinity | nan | decimal [exponent], under a sign
float_body(body, sign) ==
    IF body \in {<<"i", "n", "f">>, <<"i", "n", "f", "i", "n", "i", "t", "y">>}
    THEN Parsed(Inf(sign))
    ELSE IF body = <<"n", "a", "n">> THEN Parsed(NaN)
    ELSE with_sign(ParseUnsigned(body), sign)

float_signed(t) ==
    IF t # <<>> /\ Head(t) \in {"+", "-"}
    THEN float_body(Tail(t), IF Head(t) = "-" THEN -1 ELSE 1)
    ELSE float_body(t, 1)

\* float(s) for a str s: surrounding whitespace and case are ignored; the text
\* is [sign] (inf | infinity | nan | decimal [exponent]), anything else raises
\* ValueError
float(s) == float_signed(lower(strip(s)))

(* ------------------------- analysis functions --------------------------- *)

NOT_SUBMITTED == <<"n", "o", "t", " ", "s", "u", "b", "m", "i", "t", "t", "e", "d">>
SLASH_100 == <<"/", "1", "0", "0">>

has_submitted(g) == isinstance_str(g) /\ strip(g.val) \notin {<<>>, NOT_SUBMITTED}

\* results of get_performance: None, a float, or an exception that escapes
None == [kind |-> "None", v |-> NaN, exc |-> "-"]
Float(x) == [kind |-> "float", v |-> x, exc |-> "-"]
Raise(e) == [kind |-> "raise", v |-> NaN, exc |-> e]

\* points, total = <two floats>, or the ValueError of a piece that is no float
unpack_pair(a, b) ==
    IF ~a.ok \/ ~b.ok
    THEN [exc |-> "ValueError", points |-> NaN, total |-> NaN]
    ELSE [exc |-> "-", points |-> a.v, total |-> b.v]

\* points, total = map(float, pieces): ValueError when there are not exactly
\* two pieces
unpack_pieces(p) ==
    IF Len(p) # 2
    THEN [exc |-> "ValueError", points |-> NaN, total |-> NaN]
    ELSE unpack_pair(float(p[1]), float(p[2]))

\* points, total = map(float, grade.split('/'))
unpack(s) == unpack_pieces(split(s, "/"))

\* points / total: ZeroDivisionError when total compares equal to 0
truediv(points, total) ==
    IF FloatEq(total, 0) THEN Raise("ZeroDivisionError") ELSE Float(FloatDiv(points, total))

\* q * 100, or the exception that computing q raised
times_100(q) == IF q.kind = "raise" THEN q ELSE Float(FloatMul(q.v, 100))

\* the guard against a zero total left out
zero_total_unguarded(total) == FALSE

\* if total == 0: return 0.0
zero_total(total) == FloatEq(total, 0)

\* the try block after the unpacking u
percentage(u) ==
    IF u.exc # "-" THEN Raise(u.exc)
    ELSE IF zero_total(u.total) THEN Float(Fin(0, 1))
    ELSE times_100(truediv(u.points, u.total))

\* the body of get_performance's try block
try_body(s) == percentage(unpack(s))

\* the exceptions get_performance's except clause catches
Caught == {"ValueError", "TypeError"}

\* except (ValueError, TypeError): return -1.0
except_clause(r) == IF r.kind = "raise" /\ r.exc \in Caught THEN Float(Fin(-1, 1)) ELSE r

get_performance(g) == IF ~has_submitted(g) THEN None ELSE except_clause(try_body(g.val))

\* value == "" or value.startswith("not submitted") or "/100" not in value
screened_out(v) == v = <<>> \/ startswith(v, NOT_SUBMITTED) \/ ~contains(v, SLASH_100)

\* try: score = float(...); return score > threshold; except ValueError: False
score_gt(score, threshold) == score.ok /\ FloatGt(score.v, threshold)

\* is_valid_score after value = value.strip().lower()
valid_stripped(v) == ~screened_out(v) /\ score_gt(float(split(v, "/")[1]), 50)

is_valid_score(value) == isinstance_str(value) /\ valid_stripped(lower(strip(value.val)))

\* a score compared with 100 in place of 0
submitted_over_100(v) == ~screened_out(v) /\ score_gt(float(split(v, "/")[1]), 100)

\* submitted after value = value.strip().lower()
submitted_stripped(v) == ~screened_out(v) /\ score_gt(float(split(v, "/")[1]), 0)

submitted(value) == isinstance_str(value) /\ submitted_stripped(lower(strip(value.val)))

(* --------------------------- the grade tokens --------------------------- *)

Alphabet == {"6", "0", "1", "/", "x", "-", " "}

\* every token over Alphabet of at most MaxLen characters
GeneratedTokens == UNION {[1..n -> Alphabet] : n \in 0..MaxLen}

\* tokens of the embedded table (src/main.py:10-16) and of the grade format's
\* edge cases, beyond the generated ones
NamedTokens ==
    { NOT_SUBMITTED,
      <<"N", "o", "t", " ", "S", "u", "b", "m", "i", "t", "t", "e", "d">>,
      <<"N", "O", "T", " ", "S", "U", "B", "M", "I", "T", "T", "E", "D">>,
      NOT_SUBMITTED \o <<" ", "6", "0", "/", "1", "0", "0">>,
      <<" ">> \o NOT_SUBMITTED \o <<" ">>,
      <<" ">>,
      <<"9", "8", ".", "8", "0", "/", "1", "0", "0">>,
      <<"3", "8", ".", "7", "8", "/", "1", "0", "0">>,
      <<"1", "0", "0", ".", "0", "0", "/", "1", "0", "0">>,
      <<"4", "0", "/", "5", "0">>,
      <<"4", "0", "/", "1", "0", "0">>,
      <<"5", "0", "/", "1", "0", "0">>,
      <<"5", "1", "/", "1", "0", "0">>,
      <<"8", "5", "/", "1", "0", "0">>,
      <<"6", "0", "/", "1", "0", "0", "0">>,
      <<"6", "0", "/", "1", "0", "0", "/", "7">>,
      <<"6", "0", "/", "1", "0", "0", "x">>,
      <<" ", "6", "0", " ", "/", " ", "1", "0", "0", " ">>,
      <<"6", "0", " ", "/", "1", "0", "0">>,
      <<"-", "1", "/", "1", "0", "0">>,
      <<"-", "5", "/", "5", "0", "0">>,
      <<"1", "/", "-", "1", "0", "0">>,
      <<"5", "/", "0">>,
      <<"5", "/", "-", "0", ".", "0">>,
      <<"a", "b", "c", "/", "1", "0", "0">>,
      <<"i", "n", "f", "/", "1", "0", "0">>,
      <<"n", "a", "n", "/", "1", "0", "0">>,
      <<"6", "/", "i", "n", "f">>,
      <<"6", "/", "n", "a", "n">>,
      <<"i", "n", "f", "/", "i", "n", "f">>,
      <<"1", "e", "2", "/", "1", "0", "0">>,
      <<"6", "E", "1", "/", "1", "e", "2">>,
      <<"+", "6", "0", "/", "1", "0", "0">> }

Tokens == GeneratedTokens \cup NamedTokens

\* the values a table cell can hold after fillna('')
Values == {Str(t) : t \in Tokens} \cup {NotStr}

(* ------------------------------ the table ------------------------------- *)

\* the printable ASCII characters in code-point order, from 32; the double
\* quote, the backslash and the backtick, which no name holds, are spelled out
Printable ==
    << " ", "!", "(quote)", "#", "$", "%", "&", "'", "(", ")", "*", "+",
       ",", "-", ".", "/", "0", "1", "2", "3", "4", "5", "6", "7",
       "8", "9", ":", ";", "<", "=", ">", "?", "@", "A", "B", "C",
       "D", "E", "F", "G", "H", "I", "J", "K", "L", "M", "N", "O",
       "P", "Q", "R", "S", "T", "U", "V", "W", "X", "Y", "Z", "[",
       "(backslash)", "]", "^", "_", "(backtick)", "a", "b", "c", "d", "e", "f", "g",
       "h", "i", "j", "k", "l", "m", "n", "o", "p", "q", "r", "s",
       "t", "u", "v", "w", "x", "y", "z", "{", "|", "}", "~" >>

\* ord(c)
ord(c) == 31 + (CHOOSE i \in 1..Len(Printable) : Printable[i] = c)

\* a < b for two str: by code point, a proper prefix first
RECURSIVE str_lt(_, _)
str_lt(a, b) ==
    IF b = <<>> THEN FALSE
    ELSE IF a = <<>> THEN TRUE
    ELSE IF Head(a) # Head(b) THEN ord(Head(a)) < ord(Head(b))
    ELSE str_lt(Tail(a), Tail(b))

\* list.insert keeping a sorted list sorted, after the equal elements
RECURSIVE insort(_, _)
insort(l, x) ==
    IF l = <<>> THEN <<x>>
    ELSE IF str_lt(x, Head(l)) THEN <<x>> \o l
    ELSE <<Head(l)>> \o insort(Tail(l), x)

\* sorted(l) for a list of str
RECURSIVE sorted(_)
sorted(l) == IF l = <<>> THEN <<>> ELSE insort(sorted(SubSeq(l, 1, Len(l) - 1)), l[Len(l)])

Stages == <<"etapa1", "etapa2", "etapa3", "etapa4">>
Columns == <<"name">> \o Stages

StudentNames ==
    { <<"A", "G", "u", "z", "m", "a", "n", "n", "n">>,
      <<"y", "g", "a", "b", "s", "x", "w">> }

\* the four stage cells of a row: the rows of csv_data and rows around the
\* thresholds and the grade format
StageCells ==
    { << Str(<<"9", "8", ".", "8", "0", "/", "1", "0", "0">>),
         Str(<<"3", "8", ".", "7", "8", "/", "1", "0", "0">>),
         Str(<<"n", "o", "t", " ", "s", "u", "b", "m", "i", "t", "t", "e", "d">>),
         Str(<<>>) >>,
      << Str(<<"n", "o", "t", " ", "s", "u", "b", "m", "i", "t", "t", "e", "d">>),
         Str(<<>>),
         Str(<<>>),
         Str(<<>>) >>,
      << Str(<<"1", "0", "0", ".", "0", "0", "/", "1", "0", "0">>),
         Str(<<"6", "8", ".", "1", "4", "/", "1", "0", "0">>),
         Str(<<"n", "o", "t", " ", "s", "u", "b", "m", "i", "t", "t", "e", "d">>),
         Str(<<>>) >>,
      << Str(<<"6", "0", "/", "1", "0", "0">>),
         Str(<<"6", "0", "/", "1", "0", "0">>),
         Str(<<"6", "0", "/", "1", "0", "0">>),
         Str(<<"6", "0", "/", "1", "0", "0">>) >>,
      << Str(<<"6", "0", "/", "1", "0", "0">>),
         Str(<<"5", "1", "/", "1", "0", "0">>),
         Str(<<"1", "0", "0", "/", "1", "0", "0">>),
         Str(<<"5", "0", "/", "1", "0", "0">>) >>,
      << Str(<<"6", "0", "/", "1", "0", "0">>),
         Str(<<"6", "0", "/", "1", "0", "0">>),
         Str(<<"6", "0", "/", "1", "0", "0">>),
         Str(<<"6", "0", "/", "1", "0", "0", "0">>) >>,
      << Str(<<"4", "0", "/", "5", "0">>),
         Str(<<"6", "0", "/", "1", "0", "0">>),
         Str(<<"0", "/", "1", "0", "0">>),
         Str(<<"6", "0", "/", "1", "0", "0", "/", "7">>) >>,
      << Str(<<"6", "0", "/", "1", "0", "0", "x">>),
         Str(<<"N", "o", "t", " ", "S", "u", "b", "m", "i", "t", "t", "e", "d">>),
         Str(<<"4", "0", "/", "1", "0", "0">>),
         NotStr >>,
      << Str(<<"6", "0", "/", "1", "0", "0">>),
         Str(<<"8", "5", "/", "1", "0", "0">>),
         Str(<<"6", "0", "/", "1", "0", "0">>),
         Str(<<"5", "1", "/", "1", "0", "0">>) >> }

Row(name, c) ==
    [name |-> name, etapa1 |-> c[1], etapa2 |-> c[2], etapa3 |-> c[3], etapa4 |-> c[4]]

TableRows == {Row(n, c) : n \in StudentNames, c \in StageCells}

\* pd.read_csv(...).fillna(''): the rows in file order under a RangeIndex
DataFrame(rows) == [i \in 1..Len(rows) |-> [index |-> i - 1, data |-> rows[i]]]

\* frame[mask]: the rows whose mask entry is True, index and order kept
RECURSIVE boolean_index(_, _)
boolean_index(frame, mask) ==
    IF frame = <<>> THEN <<>>
    ELSE (IF Head(mask) THEN <<Head(frame)>> ELSE <<>>)
         \o boolean_index(Tail(frame), Tail(mask))

performance_above_50(row) == \A k \in 1..Len(Stages) : is_valid_score(row[Stages[k]])

\* every stage filtered on the first stage's column
stage_submitted_etapa1(frame, stage) ==
    boolean_index(frame, [i \in 1..Len(frame) |-> submitted(frame[i].data[Stages[1]])])

\* df[df[stage].apply(submitted)]
stage_submitted(frame, stage) ==
    boolean_index(frame, [i \in 1..Len(frame) |-> submitted(frame[i].data[stage])])

\* df[df.apply(performance_above_50, axis=1)]
good_students_of(frame) ==
    boolean_index(frame, [i \in 1..Len(frame) |-> performance_above_50(frame[i].data)])

\* frame['name'].tolist()
name_tolist(frame) == [i \in 1..Len(frame) |-> frame[i].data.name]

(* ------------------------------- files ---------------------------------- *)

NoFile == [exists |-> FALSE, header |-> <<>>, rows |-> <<>>]
File(header, rows) == [exists |-> TRUE, header |-> header, rows |-> rows]

ANALYSIS_CSV == "result_page/analysis_results.csv"
STAGE_CSV ==
    << "result_page/stage1_submitted.csv", "result_page/stage2_submitted.csv",
       "result_page/stage3_submitted.csv", "result_page/stage4_submitted.csv",
       "result_page/students_above_50.csv" >>
FrameNames ==
    <<"stage1_submitted", "stage2_submitted", "stage3_submitted", "stage4_submitted",
      "good_students">>
FileNames == {ANALYSIS_CSV} \cup {STAGE_CSV[k] : k \in 1..Len(STAGE_CSV)}

\* frame.to_csv(path, index=False): the header line and one line per row,
\* each cell as its text
to_csv(frame) ==
    File(Columns,
         [i \in 1..Len(frame) |->
            <<frame[i].data.name>>
            \o [k \in 1..Len(Stages) |-> frame[i].data[Stages[k]].val]])

Keys ==
    <<"submitted_stage_1", "submitted_stage_2", "submitted_stage_3", "submitted_stage_4",
      "top_performers">>
headers ==
    <<"submitted_stage_1", "submitted_stage_2", "submitted_stage_3", "submitted_stage_4",
      "top_performers (>50%)">>

\* analysis_data.get(key, [])
dict_get(d, key) == IF key \in DOMAIN d THEN d[key] ELSE <<>>

Max(S) == CHOOSE x \in S : \A y \in S : y <= x

\* zip_longest(*lists, fillvalue=''): as many rows as the longest list
zip_longest(lists) ==
    [i \in 1..Max({0} \cup {Len(lists[k]) : k \in 1..Len(lists)}) |->
       [k \in 1..Len(lists) |-> IF i <= Len(lists[k]) THEN lists[k][i] ELSE <<>>]]

\* the lists written as they come, not sorted
write_analysis_unsorted(analysis_data) ==
    File(headers, zip_longest([k \in 1..Len(Keys) |-> dict_get(analysis_data, Keys[k])]))

\* what write_analysis_to_csv writes when nothing fails
write_analysis_to_csv(analysis_data) ==
    File(headers, zip_longest([k \in 1..Len(Keys) |-> sorted(dict_get(analysis_data, Keys[k]))]))

EmptyDict == [k \in {} |-> <<>>]

(* ------------------- the functions applied to one value ------------------ *)

NoFrames == [f \in {} |-> <<>>]
NoFiles == [f \in FileNames |-> NoFile]

IdleTable ==
    /\ df = <<>>
    /\ frames = NoFrames
    /\ analysis_results = EmptyDict
    /\ files = NoFiles
    /\ attempted = {}
    /\ failed = {}

IdleValue ==
    /\ grade = Str(<<>>)
    /\ perf = None
    /\ valid = FALSE
    /\ subm = FALSE

InitParse ==
    /\ pc = "get_performance"
    /\ grade \in Values
    /\ perf = None
    /\ valid = FALSE
    /\ subm = FALSE
    /\ IdleTable

CallGetPerformance ==
    /\ pc = "get_performance"
    /\ perf' = get_performance(grade)
    /\ pc' = IF perf'.kind = "raise" THEN "raised" ELSE "is_valid_score"
    /\ UNCHANGED <<grade, valid, subm, df, frames, analysis_results, files, attempted, failed>>

CallIsValidScore ==
    /\ pc = "is_valid_score"
    /\ valid' = is_valid_score(grade)
    /\ pc' = "submitted"
    /\ UNCHANGED <<grade, perf, subm, df, frames, analysis_results, files, attempted, failed>>

CallSubmitted ==
    /\ pc = "submitted"
    /\ subm' = submitted(grade)
    /\ pc' = "returned"
    /\ UNCHANGED <<grade, perf, valid, df, frames, analysis_results, files, attempted, failed>>

NextParse == CallGetPerformance \/ CallIsValidScore \/ CallSubmitted

SpecParse == InitParse /\ [][NextParse]_vars

(* ----------------------------- the main block --------------------------- *)

\* the statements of the main block, in order; the console prints change nothing
MainBlock ==
    <<"makedirs">> \o FrameNames \o <<"analysis_results", "write_analysis_to_csv">>
    \o STAGE_CSV \o <<"done">>

After(p) == MainBlock[1 + (CHOOSE i \in 1..Len(MainBlock) : MainBlock[i] = p)]

Tables == {DataFrame(rows) : rows \in UNION {[1..n -> TableRows] : n \in 0..MaxRows}}

InitRun ==
    /\ pc = "makedirs"
    /\ IdleValue
    /\ df \in Tables
    /\ frames = NoFrames
    /\ analysis_results = EmptyDict
    /\ files = NoFiles
    /\ attempted = {}
    /\ failed = {}

Bind(f, name, x) == [n \in DOMAIN f \cup {name} |-> IF n = name THEN x ELSE f[n]]

\* os.makedirs("result_page", exist_ok=True)
MakeDirs ==
    /\ pc = "makedirs"
    /\ pc' = After(pc)
    /\ UNCHANGED <<grade, perf, valid, subm, df, frames, analysis_results, files, attempted, failed>>

\* stage<k>_submitted = df[df["etapa<k>"].apply(submitted)]
FilterStage(k) ==
    /\ pc = FrameNames[k]
    /\ frames' = Bind(frames, FrameNames[k], stage_submitted(df, Stages[k]))
    /\ pc' = After(pc)
    /\ UNCHANGED <<grade, perf, valid, subm, df, analysis_results, files, attempted, failed>>

\* good_students = df[df.apply(performance_above_50, axis=1)]
FilterGood ==
    /\ pc = "good_students"
    /\ frames' = Bind(frames, "good_students", good_students_of(df))
    /\ pc' = After(pc)
    /\ UNCHANGED <<grade, perf, valid, subm, df, analysis_results, files, attempted, failed>>

\* analysis_results = {'submitted_stage_1': stage1_submitted['name'].tolist(), ...}
BuildAnalysis ==
    /\ pc = "analysis_results"
    /\ analysis_results' = [k \in {Keys[i] : i \in 1..Len(Keys)} |->
                              name_tolist(frames[FrameNames[CHOOSE i \in 1..Len(Keys) : Keys[i] = k]])]
    /\ pc' = After(pc)
    /\ UNCHANGED <<grade, perf, valid, subm, df, frames, files, attempted, failed>>

\* the try block of write_analysis_to_csv: the file is written, or open()
\* raises and the except clause prints the error; either way the call returns
TryWrite(filename) ==
    /\ attempted' = attempted \cup {filename}
    /\ \/ /\ files' = [files EXCEPT ![filename] = write_analysis_to_csv(analysis_results)]
          /\ failed' = failed
       \/ /\ files' = files
          /\ failed' = failed \cup {filename}

\* write_analysis_to_csv(analysis_results, filename="result_page/analysis_results.csv")
WriteAnalysis ==
    /\ pc = "write_analysis_to_csv"
    /\ TryWrite(ANALYSIS_CSV)
    /\ pc' = After(pc)
    /\ UNCHANGED <<grade, perf, valid, subm, df, frames, analysis_results>>

\* <frame>.to_csv("result_page/<file>", index=False): the file is written, or
\* the call raises and nothing in the main block catches the exception
ToCsv(k) ==
    /\ pc = STAGE_CSV[k]
    /\ attempted' = attempted \cup {STAGE_CSV[k]}
    /\ \/ /\ files' = [files EXCEPT ![STAGE_CSV[k]] = to_csv(frames[FrameNames[k]])]
          /\ failed' = failed
          /\ pc' = After(pc)
       \/ /\ files' = files
          /\ failed' = failed \cup {STAGE_CSV[k]}
          /\ pc' = "traceback"
    /\ UNCHANGED <<grade, perf, valid, subm, df, frames, analysis_results>>

NextRun ==
    \/ MakeDirs
    \/ \E k \in 1..Len(Stages) : FilterStage(k)
    \/ FilterGood
    \/ BuildAnalysis
    \/ WriteAnalysis
    \/ \E k \in 1..Len(STAGE_CSV) : ToCsv(k)

SpecRun == InitRun /\ [][NextRun]_vars

(* ------------------ write_analysis_to_csv called directly ---------------- *)

BucketNames == {<<"a">>, <<"a", "b">>, <<"B">>}

ListsUpTo(n) == UNION {[1..m -> BucketNames] : m \in 0..n}

\* the dict with the keys K of the five bucket keys, lists l
Dict(K, l) == [k \in K |-> l[CHOOSE i \in 1..Len(Keys) : Keys[i] = k]]

\* every analysis_data with at most MaxTotal names in all: any of the five keys
\* may be missing, and a key that is present may map to the empty list
InitCsv ==
    /\ pc = "call_write_analysis_to_csv"
    /\ IdleValue
    /\ df = <<>>
    /\ frames = NoFrames
    /\ files = NoFiles
    /\ attempted = {}
    /\ failed = {}
    /\ \E l1 \in ListsUpTo(MaxTotal) :
       \E l2 \in ListsUpTo(MaxTotal - Len(l1)) :
       \E l3 \in ListsUpTo(MaxTotal - Len(l1) - Len(l2)) :
       \E l4 \in ListsUpTo(MaxTotal - Len(l1) - Len(l2) - Len(l3)) :
       \E l5 \in ListsUpTo(MaxTotal - Len(l1) - Len(l2) - Len(l3) - Len(l4)) :
       \E K \in SUBSET {Keys[i] : i \in 1..Len(Keys)} :
          LET l == <<l1, l2, l3, l4, l5>>
          IN  /\ \A i \in 1..Len(Keys) : l[i] # <<>> => Keys[i] \in K
              /\ analysis_results = Dict(K, l)

CallWriteAnalysis ==
    /\ pc = "call_write_analysis_to_csv"
    /\ TryWrite(ANALYSIS_CSV)
    /\ pc' = "returned"
    /\ UNCHANGED <<grade, perf, valid, subm, df, frames, analysis_results>>

NextCsv == CallWriteAnalysis

SpecCsv == InitCsv /\ [][NextCsv]_vars

(* ----------------------- vocabulary of the properties -------------------- *)

\* the token reads <left>/<right> with exactly one "/" and a float on each side
SlashCount(s) == Cardinality({i \in 1..Len(s) : s[i] = "/"})
SlashAt(s) == CHOOSE i \in 1..Len(s) : s[i] = "/"
LeftOf(s, i) == float(SubSeq(s, 1, i - 1))
RightOf(s, i) == float(SubSeq(s, i + 1, Len(s)))
BothFloats(a, b) == a.ok /\ b.ok
TwoNumbers(s) == SlashCount(s) = 1 /\ BothFloats(LeftOf(s, SlashAt(s)), RightOf(s, SlashAt(s)))

\* the token is neither empty nor the words "not submitted", blanks aside
SubmittedText(t) == t # <<>> /\ t # NOT_SUBMITTED

\* the token is empty, or is or begins with "not submitted" in any case
UnsubmittedText(t) == t = <<>> \/ startswith(t, NOT_SUBMITTED)

\* the percentage of points out of total, 0 for a total of zero
PercentageOf(points, total) ==
    IF FloatEq(total, 0) THEN Float(Fin(0, 1))
    ELSE Float(FloatMul(FloatDiv(points, total), 100))

Malformed == Float(Fin(-1, 1))

PerformanceKnown == pc \in {"is_valid_score", "submitted", "returned", "raised"}

(* ------------------------ properties of the functions -------------------- *)

\* C3: get_performance returns None for a token that is empty, or that is or
\* begins with "not submitted" compared without regard to case.
C3_UnsubmittedIsNone ==
    (PerformanceKnown /\ isinstance_str(grade) /\ UnsubmittedText(lower(grade.val)))
        => perf = None

C4_Numeric(p, s, i) == p = PercentageOf(LeftOf(s, i).v, RightOf(s, i).v)

\* C4: get_performance never raises; a token of two numbers around one "/"
\* yields points/total*100, or 0 when the total is zero; every other submitted
\* token yields the sentinel -1.0.
C4_NeverRaises ==
    PerformanceKnown =>
        /\ pc # "raised"
        /\ perf.kind # "raise"
        /\ (isinstance_str(grade) /\ TwoNumbers(grade.val))
              => C4_Numeric(perf, grade.val, SlashAt(grade.val))
        /\ (isinstance_str(grade) /\ SubmittedText(strip(grade.val)) /\ ~TwoNumbers(grade.val))
              => perf = Malformed

\* C4 witness: "6/0" was classified, without a division error, as 0.0
C4_Witness ==
    /\ pc = "returned"
    /\ grade = Str(<<"6", "/", "0">>)
    /\ perf = Float(Fin(0, 1))

\* C5: a token for which is_valid_score holds is one that get_performance
\* classifies as Numeric: it is two numbers around one "/".
C5_PassingIsNumeric ==
    (pc = "returned" /\ valid) => (perf.kind = "float" /\ TwoNumbers(grade.val))

\* C10: the sentinel -1.0 is returned only for a token that fails to parse, and
\* None only for an unsubmitted token.
C10_SentinelIsUnambiguous ==
    (PerformanceKnown /\ isinstance_str(grade)) =>
        /\ perf = Malformed => ~TwoNumbers(grade.val)
        /\ perf = None => ~SubmittedText(strip(grade.val))

(* ------------------------ properties of the main block ------------------- *)

\* the row with index label x is in the frame
InFrame(frame, x) == \E j \in 1..Len(frame) : frame[j].index = x

PositivePoints(s, i) == FloatGt(LeftOf(s, i).v, 0)
NumericPositive(cell) ==
    isinstance_str(cell) /\ TwoNumbers(cell.val) /\ PositivePoints(cell.val, SlashAt(cell.val))

\* C1: a student is in submitted_stage_k exactly when the stage's token is two
\* numbers around one "/" and the points are greater than 0.
C1_SubmittedIffNumericPositive ==
    \A k \in 1..Len(Stages) :
        FrameNames[k] \in DOMAIN frames =>
            \A i \in 1..Len(df) :
                InFrame(frames[FrameNames[k]], df[i].index)
                    <=> NumericPositive(df[i].data[Stages[k]])

Over50Of100(s, i) == FloatGt(LeftOf(s, i).v, 50) /\ FloatEq(RightOf(s, i).v, 100)
NumericOver50Of100(cell) ==
    isinstance_str(cell) /\ TwoNumbers(cell.val) /\ Over50Of100(cell.val, SlashAt(cell.val))

\* C2: a student is a top performer exactly when each of the four stages holds
\* <points>/100 with points greater than 50.
C2_TopIffAllOver50Of100 ==
    "good_students" \in DOMAIN frames =>
        \A i \in 1..Len(df) :
            InFrame(frames["good_students"], df[i].index)
                <=> \A k \in 1..Len(Stages) : NumericOver50Of100(df[i].data[Stages[k]])

\* C9: every top performer is in each of the four submitted_stage_k sets.
C9_TopPerformersSubmittedAll ==
    "good_students" \in DOMAIN frames =>
        \A j \in 1..Len(frames["good_students"]) :
            \A k \in 1..Len(Stages) :
                InFrame(frames[FrameNames[k]], frames["good_students"][j].index)

\* C9 witness: of two students one is a top performer, and the run is over
C9_Witness ==
    /\ pc = "done"
    /\ Len(df) = 2
    /\ Len(frames["good_students"]) = 1
    /\ Len(frames["stage4_submitted"]) = 1

\* the cells of a table row as to_csv writes them
RowText(row) == <<row.name, row.etapa1.val, row.etapa2.val, row.etapa3.val, row.etapa4.val>>

\* the student of the row qualifies for bucket k
Qualifies(k, row) ==
    IF k <= Len(Stages) THEN submitted(row[Stages[k]]) ELSE performance_above_50(row)

Qualified(k) == {i \in 1..Len(df) : Qualifies(k, df[i].data)}

\* the j-th smallest element of a set of numbers
Nth(Q, j) == CHOOSE i \in Q : Cardinality({m \in Q : m < i}) = j - 1

ColumnNames(f, k) == {f.rows[j][k] : j \in 1..Len(f.rows)} \ {<<>>}

C7_Rows(f, Q) ==
    /\ f.header = <<"name", "etapa1", "etapa2", "etapa3", "etapa4">>
    /\ Len(f.rows) = Cardinality(Q)
    /\ \A j \in 1..Len(f.rows) : f.rows[j] = RowText(df[Nth(Q, j)].data)

C8_WriteFailureIsRecoverable ==
    pc \in {"done", "traceback"} => (pc = "done" /\ attempted = FileNames)

(* ----------------- properties of write_analysis_to_csv ------------------- *)

Count(l, x) == Cardinality({i \in 1..Len(l) : l[i] = x})

Column(f, k) == [i \in 1..Len(f.rows) |-> f.rows[i][k]]

\* the column is the list's names in order, then only padding
C6_Column(col, l) ==
    /\ Len(col) >= Len(l)
    /\ \A i \in 1..(Len(l) - 1) : ~str_lt(col[i + 1], col[i])
    /\ \A i \in (Len(l) + 1)..Len(col) : col[i] = <<>>
    /\ \A x \in BucketNames : Count(SubSeq(col, 1, Len(l)), x) = Count(l, x)

C6_File(f, d) ==
    /\ f.header = <<"submitted_stage_1", "submitted_stage_2", "submitted_stage_3",
                    "submitted_stage_4", "top_performers (>50%)">>
    /\ Len(f.rows) = Max({0} \cup {Len(d[k]) : k \in DOMAIN d})
    /\ \A i \in 1..Len(f.rows) : Len(f.rows[i]) = 5
    /\ \A k \in 1..5 :
          C6_Column(Column(f, k), IF Keys[k] \in DOMAIN d THEN d[Keys[k]] ELSE <<>>)

\* C6: the file written is the fixed header and as many rows as the longest
\* bucket; each column is its bucket's names in lexicographic order, each as
\* often as in the bucket, then empty cells; a missing bucket is all empty cells.
C6_BucketsTable == files[ANALYSIS_CSV].exists => C6_File(files[ANALYSIS_CSV], analysis_results)

\* C6 witness: three names out of order in the first bucket, the last bucket
\* missing, and the file written
C6_Witness ==
    /\ pc = "returned"
    /\ files[ANALYSIS_CSV].exists
    /\ "top_performers" \notin DOMAIN analysis_results
    /\ "submitted_stage_1" \in DOMAIN analysis_results
    /\ analysis_results["submitted_stage_1"] = << <<"a", "b">>, <<"a">>, <<"B">> >>

====
